---------------------------- MODULE Spec2Model ----------------------------
(***************************************************************************)
(* Model of lkt-lns: a LoRaWAN network-server bridge between Semtech-UDP   *)
(* gateways and an MQTT platform.                                          *)
(*                                                                         *)
(*   SpecCodec  the Semtech (GWMP) codec as pure functions                 *)
(*              (helpers.py, upstream.py: generate_header, parse_uplink,   *)
(*              build_pull_resp)                                           *)
(*   SpecDown   downstream_task (downstream.py) with a producer that       *)
(*              enqueues scheduled downlinks and a clock                   *)
(*   SpecUp     upstream_thread (upstream.py)                              *)
(*                                                                         *)
(* A Python exception is a value: every operator that models a call that   *)
(* can raise returns a record whose field exc names the exception          *)
(* ("none" when the call returns).  An exception no handler catches ends   *)
(* the thread that raised it (pc = "crashed").                             *)
(***************************************************************************)
EXTENDS Integers, Sequences, FiniteSets, TLC

VARIABLES
    cdc,        \* SpecCodec: the last codec call, its input and its result
    dpc,        \* SpecDown: position of downstream_task
    dqueue,     \* SpecDown: the queue.Queue of (downlink, tmms), head first
    dnow,       \* SpecDown: time.time(), in ticks
    dcur,       \* SpecDown: locals of the datagram in hand (token, ptype, gw_id, addr)
    dsent,      \* SpecDown: every datagram sendto() has sent, oldest first
    dhist,      \* SpecDown: history of the current PULL_DATA cycle and of the entries
                \*   (the ids sent, in order, and the ids dropped as expired)
    denq,       \* SpecDown: number of entries the producer has put so far
    upc,        \* SpecUp: position of upstream_thread
    ucur,       \* SpecUp: locals of the datagram in hand
    devices,    \* SpecUp: the device cache (set of DevAddr known)
    usince,     \* SpecUp: time since last_update_time, in ticks
    ulog,       \* SpecUp: what the handling of the datagram in hand did, in order
    fcnt,       \* SpecUp: the per-process counter fcnt
    mpc,        \* SpecMain: position of main()
    mthreads    \* SpecMain: the targets of the threads main() has started

vars == <<cdc, dpc, dqueue, dnow, dcur, dsent, dhist, denq,
          upc, ucur, devices, usince, ulog, fcnt, mpc, mthreads>>

codecVars == <<cdc>>
downVars == <<dpc, dqueue, dnow, dcur, dsent, dhist, denq>>
upVars == <<upc, ucur, devices, usince, ulog, fcnt>>
mainVars == <<mpc, mthreads>>

-----------------------------------------------------------------------------
(* Python values *)

None == [py |-> "None"]

Min(a, b) == IF a < b THEN a ELSE b

\* s[a:b] of Python: 0-based, a inclusive, b exclusive, clipped to the length.
PySlice(s, a, b) == SubSeq(s, a + 1, Min(b, Len(s)))

\* bytes(n) for an int n: n zero bytes.
ZeroBytes(n) == [i \in 1..n |-> 0]

\* bytes.hex(): two hexadecimal digits (values 0..15) per byte.
RECURSIVE Hex(_)
Hex(bs) ==
    IF bs = <<>> THEN <<>>
    ELSE <<Head(bs) \div 16, Head(bs) % 16>> \o Hex(Tail(bs))

\* bytes.fromhex() on a string of an even number of digits.
RECURSIVE FromHex(_)
FromHex(h) ==
    IF Len(h) < 2 THEN <<>>
    ELSE <<h[1] * 16 + h[2]>> \o FromHex(SubSeq(h, 3, Len(h)))

-----------------------------------------------------------------------------
(* packets.py *)

PKT_PUSH_DATA == 0
PKT_PUSH_ACK == 1
PKT_PULL_DATA == 2
PKT_PULL_RESP == 3
PKT_PULL_ACK == 4
PKT_TX_ACK == 5

\* GatewayPacketType(b): the enum member, ValueError for any other value.
GatewayPacketType(b) ==
    IF b \in {PKT_PUSH_DATA, PKT_PUSH_ACK, PKT_PULL_DATA,
              PKT_PULL_RESP, PKT_PULL_ACK, PKT_TX_ACK}
    THEN [exc |-> "none", val |-> b]
    ELSE [exc |-> "ValueError", val |-> b]

\* The fields of Txpk, in declaration order (the order model_dump_json keeps).
TxpkFields ==
    <<"imme", "tmst", "tmms", "freq", "rfch", "powe",
      "datr", "modu", "codr", "ipol", "size", "data">>


\* json.dumps() serialises dict, list, str, int, float, bool and None; for any
\* other object (a pydantic model such as Txpk) it raises TypeError.
JsonSerializable(obj) == obj.pytype \in {"dict", "list", "str", "int", "bool", "None"}

\* Txpk.model_dump_json(): a compact JSON object (no whitespace between the
\* tokens) with one member per field, in declaration order, at the top level.
model_dump_json(txpk) ==
    [i \in 1..Len(TxpkFields) |->
        [k |-> TxpkFields[i], v |-> txpk.fields[TxpkFields[i]]]]

\* str.replace(" ", "") on a string held as a sequence of characters.
RemoveSpaces(chars) == SelectSeq(chars, LAMBDA c : c # " ")

\* str.replace(" ", "") on compact JSON text: the only spaces left are those
\* inside string values.
replace_spaces(members) ==
    [i \in 1..Len(members) |->
        [k |-> members[i].k,
         v |-> IF members[i].v.t = "str"
               THEN [t |-> "str", s |-> RemoveSpaces(members[i].v.s)]
               ELSE members[i].v]]

\* The keys of the top level of a JSON object, in order.
TopLevelKeys(members) == [i \in 1..Len(members) |-> members[i].k]

-----------------------------------------------------------------------------
(* base64 *)

B64Pad == 64

\* base64.b64encode(): sextets 0..63, B64Pad for "=".
RECURSIVE b64encode(_)
b64encode(bs) ==
    IF Len(bs) = 0 THEN <<>>
    ELSE IF Len(bs) = 1
    THEN <<bs[1] \div 4, (bs[1] % 4) * 16, B64Pad, B64Pad>>
    ELSE IF Len(bs) = 2
    THEN <<bs[1] \div 4, (bs[1] % 4) * 16 + bs[2] \div 16, (bs[2] % 16) * 4, B64Pad>>
    ELSE <<bs[1] \div 4, (bs[1] % 4) * 16 + bs[2] \div 16,
           (bs[2] % 16) * 4 + bs[3] \div 64, bs[3] % 64>>
         \o b64encode(SubSeq(bs, 4, Len(bs)))

\* The bytes of well-padded base64 text.
RECURSIVE B64Bytes(_)
B64Bytes(cs) ==
    IF Len(cs) < 4 THEN <<>>
    ELSE LET a == cs[1]
             b == cs[2]
             c == cs[3]
             d == cs[4]
             rest == B64Bytes(SubSeq(cs, 5, Len(cs)))
         IN  IF c = B64Pad THEN <<a * 4 + b \div 16>>
             ELSE IF d = B64Pad
             THEN <<a * 4 + b \div 16, (b % 16) * 16 + c \div 4>>
             ELSE <<a * 4 + b \div 16, (b % 16) * 16 + c \div 4, (c % 4) * 64 + d>>
                  \o rest

\* base64.b64decode(): binascii.Error ("Incorrect padding") when the text is
\* not a whole number of 4-character groups.
b64decode(cs) ==
    IF Len(cs) % 4 # 0
    THEN [exc |-> "binascii.Error", val |-> <<>>]
    ELSE [exc |-> "none", val |-> B64Bytes(cs)]

-----------------------------------------------------------------------------
(* helpers.py, upstream.py: the Semtech codec *)

\* A datagram is its first HeaderLen bytes (fewer when it is shorter) and the
\* JSON text that follows them; body.json = "absent" when nothing follows.
HeaderLen == 12

DataLen(data) == Len(data.hdr) + (IF data.body.json = "absent" THEN 0 ELSE 1)

\* Rxpk.model_validate_json(text): the text is one JSON object with every
\* required field of Rxpk.
Rxpk_model_validate_json(body) ==
    IF body.json = "rxpk" /\ body.rx.complete
    THEN [exc |-> "none", val |-> body.rx]
    ELSE [exc |-> "ValidationError", val |-> None]

\* UplinkPacket.model_validate_json(text): the text is {"rxpk": [...]} and every
\* element validates as Rxpk (an empty list validates).
UplinkPacket_model_validate_json(body) ==
    IF body.json = "batch" /\ \A i \in 1..Len(body.rxpk) : body.rxpk[i].complete
    THEN [exc |-> "none", val |-> [rxpk |-> body.rxpk]]
    ELSE [exc |-> "ValidationError", val |-> None]

\* helpers.generate_header
generate_header(version, token, pkt_type, gateway_id) ==
    version \o token \o <<pkt_type>> \o FromHex(gateway_id)

\* upstream.parse_uplink: data[0] and data[3] raise IndexError on a short
\* datagram, slices never raise; bytes(version) is called on the int data[0].
parse_uplink(data) ==
    IF Len(data.hdr) < 1 \/ Len(data.hdr) < 4
    THEN [exc |-> "IndexError"]
    ELSE IF GatewayPacketType(data.hdr[4]).exc # "none"
    THEN [exc |-> "ValueError"]
    ELSE [exc |-> "none",
          version |-> ZeroBytes(data.hdr[1]),
          token |-> PySlice(data.hdr, 1, 3),
          ptype |-> GatewayPacketType(data.hdr[4]).val,
          gateway_id |-> Hex(PySlice(data.hdr, 4, HeaderLen)),
          payload |-> IF DataLen(data) > HeaderLen
                      THEN UplinkPacket_model_validate_json(data.body).val
                      ELSE None]

\* helpers.parse_uplink (the one downstream_task calls): the same header code,
\* the body validated as a single Rxpk.
helpers_parse_uplink(data) ==
    IF Len(data.hdr) < 1 \/ Len(data.hdr) < 4
    THEN [exc |-> "IndexError"]
    ELSE IF GatewayPacketType(data.hdr[4]).exc # "none"
    THEN [exc |-> "ValueError"]
    ELSE [exc |-> "none",
          version |-> ZeroBytes(data.hdr[1]),
          token |-> PySlice(data.hdr, 1, 3),
          ptype |-> GatewayPacketType(data.hdr[4]).val,
          gateway_id |-> Hex(PySlice(data.hdr, 4, HeaderLen)),
          payload |-> IF DataLen(data) > HeaderLen
                      THEN Rxpk_model_validate_json(data.body).val
                      ELSE None]

\* helpers.build_pull_resp: downlink.model_dump_json is an attribute of a
\* pydantic model only.
build_pull_resp(token, gateway_id, downlink) ==
    IF downlink.pytype # "Txpk"
    THEN [exc |-> "AttributeError"]
    ELSE [exc |-> "none",
          hdr |-> <<2>> \o token \o <<PKT_PULL_RESP>> \o FromHex(gateway_id),
          body |-> replace_spaces(model_dump_json(downlink))]

-----------------------------------------------------------------------------
(* Inputs of the downlink side *)

\* Resolution of the clock: ticks per second of time.time().
TicksPerSecond == 2

\* The clock stops at MaxTime ticks; the producer puts at most MaxEnq entries.
MaxTime == 3
MaxEnq == 2

\* "1 < delay": the window, in seconds, in which a dequeued entry is sent.
RipeWindowSeconds == 1
RipeWindow == RipeWindowSeconds * TicksPerSecond

\* Deadlines the producer gives, relative to the time of the put: already
\* past, the last tick of the window, just beyond the window.
Deltas == {0 - 1, RipeWindow, RipeWindow + 1}

\* What the producer puts as the downlink: a Txpk, as the queue is declared
\* (queue.Queue[tuple[Txpk, int]]), or the dict the json.dumps of the log line
\* would take.
EntryTypes == {"Txpk", "dict"}

JBool(b) == [t |-> "bool", b |-> b]
JInt(n) == [t |-> "int", n |-> n]
JStr(cs) == [t |-> "str", s |-> cs]
JNull == [t |-> "null"]

\* The fields of a scheduled downlink (Txpk defaults, a LoRaWAN RX1 downlink).
TxpkSample(id) ==
    [imme |-> JBool(FALSE), tmst |-> JInt(5000000 + id), tmms |-> JNull,
     freq |-> JInt(9233), rfch |-> JInt(0), powe |-> JInt(12),
     datr |-> JStr(<<"S", "F", "1", "0", "B", "W", "5", "0", "0">>),
     modu |-> JStr(<<"L", "O", "R", "A">>), codr |-> JStr(<<"4", "/", "5">>),
     ipol |-> JBool(TRUE), size |-> JInt(3),
     data |-> JStr(<<"Y", "W", "J", "j">>)]

Downlink(pytype, id) == [pytype |-> pytype, id |-> id, fields |-> TxpkSample(id)]

TokenA == <<171, 205>>
GatewayA == <<1, 2, 3, 4, 5, 6, 7, 8>>

NoBody == [json |-> "absent"]

Frame(version, token, ptype, gw) ==
    [hdr |-> <<version>> \o token \o <<ptype>> \o gw, body |-> NoBody]

\* The first n bytes of a frame.
Truncated(frame, n) == [hdr |-> PySlice(frame.hdr, 0, n), body |-> NoBody]

\* Datagrams the downlink socket receives: PULL_DATA, TX_ACK, the frames of
\* the other types, a frame of an unknown type, and frames cut short.
DownDatagrams ==
    { Frame(2, TokenA, PKT_PULL_DATA, GatewayA),
      Frame(2, TokenA, PKT_TX_ACK, GatewayA),
      Frame(2, TokenA, PKT_PUSH_DATA, GatewayA),
      Frame(2, TokenA, PKT_PUSH_ACK, GatewayA),
      Frame(2, TokenA, PKT_PULL_RESP, GatewayA),
      Frame(2, TokenA, PKT_PULL_ACK, GatewayA),
      Frame(2, TokenA, 9, GatewayA),
      Truncated(Frame(2, TokenA, PKT_PULL_DATA, GatewayA), 4),
      Truncated(Frame(2, TokenA, PKT_PULL_DATA, GatewayA), 3) }

-----------------------------------------------------------------------------
(* downstream.py: downstream_task *)

\* Lines 82-90, the branch of an entry (downlink, tmms) that is due, the rest
\* of the queue being `rest`: the log line calls json.dumps(downlink), then
\* build_pull_resp and sendto, then break.
\* exc: the exception raised ("none": the branch ran to its break);
\* send: the datagrams handed to sendto; brk: the loop is left;
\* queue: the queue after the branch.
RipeBranch_SendNoBreak(entry, token, gw_id, rest) ==
    [exc |-> "none",
     send |-> <<[hdr |-> <<2>> \o token \o <<PKT_PULL_RESP>> \o FromHex(gw_id),
                 body |-> replace_spaces(model_dump_json(entry.downlink))]>>,
     brk |-> FALSE, queue |-> rest]

RipeBranch_SendAndPutBack(entry, token, gw_id, rest) ==
    [exc |-> "none",
     send |-> <<[hdr |-> <<2>> \o token \o <<PKT_PULL_RESP>> \o FromHex(gw_id),
                 body |-> replace_spaces(model_dump_json(entry.downlink))]>>,
     brk |-> TRUE, queue |-> Append(rest, entry)]

RipeBranch(entry, token, gw_id, rest) ==
    IF ~JsonSerializable(entry.downlink)
    THEN [exc |-> "TypeError", send |-> <<>>, brk |-> FALSE, queue |-> rest]
    ELSE IF build_pull_resp(token, gw_id, entry.downlink).exc # "none"
    THEN [exc |-> build_pull_resp(token, gw_id, entry.downlink).exc,
          send |-> <<>>, brk |-> FALSE, queue |-> rest]
    ELSE [exc |-> "none",
          send |-> <<[hdr |-> build_pull_resp(token, gw_id, entry.downlink).hdr,
                      body |-> build_pull_resp(token, gw_id, entry.downlink).body]>>,
          brk |-> TRUE, queue |-> rest]

\* Lines 74-80, the branch a dequeued entry takes at time now.
Classify(tmms, now) ==
    IF RipeWindow < tmms - now THEN "future"
    ELSE IF tmms - now < 0 THEN "past"
    ELSE "ripe"

\* Lines 75-77, the branch of an entry that is not due yet: queue.put, continue.
FutureBranch_Break(entry, rest) == [queue |-> Append(rest, entry), brk |-> TRUE]

FutureBranch(entry, rest) == [queue |-> Append(rest, entry), brk |-> FALSE]

\* Lines 78-80, the branch of an entry whose deadline is past: continue.
PastBranch(entry, rest) == [queue |-> rest, brk |-> FALSE]

\* History of the PULL_DATA cycle in hand, reset when a PULL_DATA arrives.
NoCycle ==
    [active |-> FALSE, t0 |-> 0, head0 |-> None, cycSent |-> 0, cycDeq |-> 0,
     requeued |-> FALSE, deqAfterRequeue |-> FALSE,
     lastDrop |-> FALSE, ripe |-> 0, ripeAfterDrop |-> FALSE]

DownInit ==
    /\ dpc = "recv"
    /\ dqueue = <<>>
    /\ dnow = 1
    /\ dcur = [token |-> <<>>, ptype |-> PKT_TX_ACK, gw_id |-> <<>>]
    /\ dsent = <<>>
    /\ dhist = [cyc |-> NoCycle, sentIds |-> <<>>, dropped |-> {}]
    /\ denq = 0

\* The producer (the Subscriber callback, outside the core) puts one entry.
DownEnqueue ==
    /\ denq < MaxEnq
    /\ \E delta \in Deltas, pytype \in EntryTypes :
         dqueue' = Append(dqueue, [downlink |-> Downlink(pytype, denq + 1),
                                   tmms |-> dnow + delta])
    /\ denq' = denq + 1
    /\ UNCHANGED <<dpc, dnow, dcur, dsent, dhist>>
    /\ UNCHANGED <<codecVars, upVars, mainVars>>

\* Time passes (also during recvfrom and during time.sleep(0.1)).
DownTick ==
    /\ dnow < MaxTime
    /\ dnow' = dnow + 1
    /\ UNCHANGED <<dpc, dqueue, dcur, dsent, dhist, denq>>
    /\ UNCHANGED <<codecVars, upVars, mainVars>>

\* Lines 56-67: recvfrom, parse_uplink (its exceptions are not caught), the
\* TX_ACK test.
DownRecv ==
    /\ dpc = "recv"
    /\ \E data \in DownDatagrams :
         LET r == helpers_parse_uplink(data) IN
         IF r.exc # "none"
         THEN /\ dpc' = "crashed"
              /\ UNCHANGED <<dcur, dhist>>
         ELSE /\ dcur' = [token |-> r.token, ptype |-> r.ptype, gw_id |-> r.gateway_id]
              /\ dpc' = IF r.ptype = PKT_TX_ACK THEN "recv" ELSE "loop"
              /\ dhist' = IF r.ptype = PKT_PULL_DATA
                          THEN [dhist EXCEPT !.cyc =
                                  [NoCycle EXCEPT !.active = TRUE, !.t0 = dnow,
                                     !.head0 = IF dqueue = <<>> THEN None
                                               ELSE Head(dqueue)]]
                          ELSE dhist
    /\ UNCHANGED <<dqueue, dnow, dsent, denq>>
    /\ UNCHANGED <<codecVars, upVars, mainVars>>

\* Line 69: the loop condition.
LoopCondition_AnyType(ptype, queue) == queue # <<>>

LoopCondition_NoEmptyTest(ptype, queue) == ptype = PKT_PULL_DATA

LoopCondition(ptype, queue) == ptype = PKT_PULL_DATA /\ queue # <<>>

DownLoopTest ==
    /\ dpc = "loop"
    /\ dpc' = IF LoopCondition(dcur.ptype, dqueue) THEN "get" ELSE "recv"
    /\ UNCHANGED <<dqueue, dnow, dcur, dsent, dhist, denq>>
    /\ UNCHANGED <<codecVars, upVars, mainVars>>

\* Lines 70-90: after the sleep, queue.get() (which blocks on an empty queue),
\* time.time(), and the three branches.
DownGet ==
    /\ dpc = "get"
    /\ dqueue # <<>>
    /\ LET entry == Head(dqueue)
           rest == Tail(dqueue)
           what == Classify(entry.tmms, dnow)
           ripe == RipeBranch(entry, dcur.token, dcur.gw_id, rest)
           id == entry.downlink.id
           c == dhist.cyc
           c1 == [c EXCEPT !.cycDeq = Min(c.cycDeq + 1, 2),
                           !.deqAfterRequeue = c.deqAfterRequeue \/ c.requeued]
       IN  CASE what = "future" ->
                  /\ dqueue' = FutureBranch(entry, rest).queue
                  /\ dpc' = IF FutureBranch(entry, rest).brk THEN "recv" ELSE "loop"
                  /\ dhist' = [dhist EXCEPT !.cyc =
                                 [c1 EXCEPT !.requeued = TRUE, !.lastDrop = FALSE]]
                  /\ UNCHANGED dsent
            [] what = "past" ->
                  /\ dqueue' = PastBranch(entry, rest).queue
                  /\ dpc' = IF PastBranch(entry, rest).brk THEN "recv" ELSE "loop"
                  /\ dhist' = [dhist EXCEPT !.cyc = [c1 EXCEPT !.lastDrop = TRUE],
                                            !.dropped = @ \cup {id}]
                  /\ UNCHANGED dsent
            [] what = "ripe" ->
                  /\ dqueue' = ripe.queue
                  /\ dsent' = dsent \o ripe.send
                  /\ dpc' = IF ripe.exc # "none" THEN "crashed"
                            ELSE IF ripe.brk THEN "recv" ELSE "loop"
                  /\ dhist' = [dhist EXCEPT
                        !.cyc = [c1 EXCEPT !.cycSent = @ + Len(ripe.send),
                                           !.lastDrop = FALSE,
                                           !.ripe = id,
                                           !.ripeAfterDrop = c.lastDrop],
                        !.sentIds = IF ripe.send = <<>> THEN @ ELSE Append(@, id)]
    /\ UNCHANGED <<dnow, dcur, denq>>
    /\ UNCHANGED <<codecVars, upVars, mainVars>>

DownNext == DownEnqueue \/ DownTick \/ DownRecv \/ DownLoopTest \/ DownGet

-----------------------------------------------------------------------------
(* lorawan.py *)

DirectionUP == 0

Reverse(s) == [i \in 1..Len(s) |-> s[Len(s) + 1 - i]]

RECURSIVE SumSeq(_)
SumSeq(s) == IF s = <<>> THEN 0 ELSE Head(s) + SumSeq(Tail(s))

\* a ^ b on bytes.
RECURSIVE Xor(_, _)
Xor(a, b) ==
    IF a = 0 /\ b = 0 THEN 0
    ELSE (((a % 2) + (b % 2)) % 2) + 2 * Xor(a \div 2, b \div 2)

\* int.to_bytes(4, "little")
LE32(n) == <<n % 256, (n \div 256) % 256, (n \div 65536) % 256, (n \div 16777216) % 256>>

\* AES.new(key, MODE_ECB).encrypt(block) on one 16-byte block: the library's
\* block cipher, held here as a fixed function of the key and the block.
AES_ECB(key, block) ==
    [j \in 1..16 |-> (SumSeq(key) * 7 + SumSeq(block) * 11 + block[16] * j + 13 * j) % 256]

\* The block A_i of LoRaWAN.decrypt.
Ai(direction, dev_addr, f_cnt, i) ==
    <<1, 0, 0, 0, 0>> \o <<direction>> \o Reverse(FromHex(dev_addr))
        \o LE32(f_cnt) \o <<0>> \o <<i>>

\* s_value of LoRaWAN.decrypt: whole blocks S_1, S_2, ... until len >= size.
RECURSIVE Keystream(_, _, _, _, _, _)
Keystream(key, direction, dev_addr, f_cnt, i, size) ==
    IF size <= 0 THEN <<>>
    ELSE AES_ECB(key, Ai(direction, dev_addr, f_cnt, i))
         \o Keystream(key, direction, dev_addr, f_cnt, i + 1, size - 16)

\* LoRaWAN.decrypt
LoRaWAN_decrypt_FromZero(payload, app_session_key, dev_addr, f_cnt, direction) ==
    [i \in 1..Len(payload) |->
        Xor(payload[i],
            Keystream(app_session_key, direction, dev_addr, f_cnt, 0, Len(payload))[i])]

LoRaWAN_decrypt(payload, app_session_key, dev_addr, f_cnt, direction) ==
    [i \in 1..Len(payload) |->
        Xor(payload[i],
            Keystream(app_session_key, direction, dev_addr, f_cnt, 1, Len(payload))[i])]

\* UPLINK_FREQUENCIES / DOWNLINK_FREQUENCIES, in tenths of MHz (the strings
\* hold one decimal).
UPLINK_FREQUENCIES == [i \in 1..8 |-> 9152 + (i - 1) * 2]
DOWNLINK_FREQUENCIES == [i \in 1..8 |-> 9233 + (i - 1) * 6]

\* f"{freq:.1f}" for a frequency held in hundredths of MHz.  A frequency with
\* a last digit of 5 is no exact binary64 value (or lies on a tie, for .25 and
\* .75): of the frequencies from 900 to 930 MHz those ending in 05, 15, 25, 55
\* and 65 round down, the others up.
Format1f(freq) ==
    IF freq % 100 \in {5, 15, 25, 55, 65} THEN freq \div 10 ELSE (freq + 5) \div 10

\* LoRaWAN.downlink_freq: list.index raises ValueError when the string is not
\* in UPLINK_FREQUENCIES.
downlink_freq_FirstChannel(freq) ==
    IF \E i \in 1..Len(UPLINK_FREQUENCIES) : UPLINK_FREQUENCIES[i] = Format1f(freq)
    THEN [exc |-> "none",
          val |-> DOWNLINK_FREQUENCIES[
                    CHOOSE i \in 1..Len(UPLINK_FREQUENCIES) :
                        UPLINK_FREQUENCIES[i] = Format1f(freq)] * 10]
    ELSE [exc |-> "none", val |-> DOWNLINK_FREQUENCIES[1] * 10]

downlink_freq_ConstantOffset(freq) ==
    IF \E i \in 1..Len(UPLINK_FREQUENCIES) : UPLINK_FREQUENCIES[i] = Format1f(freq)
    THEN [exc |-> "none",
          val |-> (Format1f(freq) + DOWNLINK_FREQUENCIES[1] - UPLINK_FREQUENCIES[1]) * 10]
    ELSE [exc |-> "ValueError", val |-> 0]

downlink_freq(freq) ==
    IF \E i \in 1..Len(UPLINK_FREQUENCIES) : UPLINK_FREQUENCIES[i] = Format1f(freq)
    THEN [exc |-> "none",
          val |-> DOWNLINK_FREQUENCIES[
                    CHOOSE i \in 1..Len(UPLINK_FREQUENCIES) :
                        UPLINK_FREQUENCIES[i] = Format1f(freq)] * 10]
    ELSE [exc |-> "ValueError", val |-> 0]

-----------------------------------------------------------------------------
(* upstream.py *)

\* "freq < 903.5", in hundredths of MHz.
P2PFreqLimit == 90350

\* "time.time() - last_update_time > 60" and settimeout(60.0), in seconds.
RefreshSeconds == 60
RecvTimeoutSeconds == 60

\* The values of the DataRate enum.
DataRates ==
    {"SF12BW125", "SF11BW125", "SF10BW125", "SF9BW125", "SF8BW125", "SF7BW125",
     "SF8BW500", "SF12BW500", "SF11BW500", "SF10BW500", "SF9BW500", "SF7BW500"}

\* update_devices: the directory's map, {} when the directory call raises.
update_devices(result) ==
    IF result.exc # "none" THEN {} ELSE result.devices

\* Lines 206-224 of upstream_thread: the PUSH_ACK is sent (sendto returns, or
\* raises and the handler continues the loop), then the payload is tested.
\* log: what was sent; next: where the thread goes.
AckStep_NoContinue(cur, sent_ok) ==
    [log |-> IF sent_ok
             THEN <<[e |-> "ack",
                     data |-> generate_header(cur.version, cur.token,
                                              PKT_PUSH_ACK, cur.gw_id)]>>
             ELSE <<>>,
     next |-> IF cur.payload = None THEN "recv" ELSE "classify"]

AckStep_NoPayloadTest(cur, sent_ok) ==
    [log |-> IF sent_ok
             THEN <<[e |-> "ack",
                     data |-> generate_header(cur.version, cur.token,
                                              PKT_PUSH_ACK, cur.gw_id)]>>
             ELSE <<>>,
     next |-> IF ~sent_ok THEN "recv" ELSE "classify"]

AckStep(cur, sent_ok) ==
    [log |-> IF sent_ok
             THEN <<[e |-> "ack",
                     data |-> generate_header(cur.version, cur.token,
                                              PKT_PUSH_ACK, cur.gw_id)]>>
             ELSE <<>>,
     next |-> IF ~sent_ok THEN "recv"
              ELSE IF cur.payload = None THEN "recv" ELSE "classify"]

\* Lines 228-266 of upstream_thread: the last rxpk, the branch by frequency,
\* the fields of the PHY.  exc: the exception raised (none is caught here);
\* next: where the thread goes; lorawan: the LoRaWAN branch was entered
\* (fcnt += 1 has run).
ClassifyRx_NoPortTest(payload) ==
    IF Len(payload.rxpk) = 0
    THEN [exc |-> "IndexError", next |-> "crashed", lorawan |-> FALSE]
    ELSE LET rx == payload.rxpk[Len(payload.rxpk)]
             raw == b64decode(rx.data)
         IN  IF rx.freq < P2PFreqLimit
             THEN IF raw.exc # "none"
                  THEN [exc |-> raw.exc, next |-> "crashed", lorawan |-> FALSE]
                  ELSE [exc |-> "none", next |-> "recv", lorawan |-> FALSE]
             ELSE IF downlink_freq(rx.freq).exc # "none"
             THEN [exc |-> "ValueError", next |-> "crashed", lorawan |-> TRUE]
             ELSE IF raw.exc # "none"
             THEN [exc |-> raw.exc, next |-> "crashed", lorawan |-> TRUE]
             ELSE IF Len(PySlice(raw.val, 6, 8)) # 2
             THEN [exc |-> "struct.error", next |-> "crashed", lorawan |-> TRUE]
             ELSE IF Len(raw.val) <= 8
             THEN [exc |-> "IndexError", next |-> "crashed", lorawan |-> TRUE]
             ELSE LET frm == PySlice(raw.val, 9, Len(raw.val) - 4)
                      fport == raw.val[9]
                  IN  [exc |-> "none", lorawan |-> TRUE,
                       next |-> "lookup",
                       rx |-> rx,
                       uplink_dev_addr_hex |-> Hex(Reverse(PySlice(raw.val, 1, 5))),
                       uplink_fcnt |-> raw.val[7] + 256 * raw.val[8],
                       uplink_fport |-> fport,
                       frm_payload_encrypted |-> frm]

ClassifyRx_NoP2PBranch(payload) ==
    IF Len(payload.rxpk) = 0
    THEN [exc |-> "IndexError", next |-> "crashed", lorawan |-> FALSE]
    ELSE LET rx == payload.rxpk[Len(payload.rxpk)]
             raw == b64decode(rx.data)
         IN  IF rx.freq < 0
             THEN IF raw.exc # "none"
                  THEN [exc |-> raw.exc, next |-> "crashed", lorawan |-> FALSE]
                  ELSE [exc |-> "none", next |-> "recv", lorawan |-> FALSE]
             ELSE IF downlink_freq(rx.freq).exc # "none"
             THEN [exc |-> "ValueError", next |-> "crashed", lorawan |-> TRUE]
             ELSE IF raw.exc # "none"
             THEN [exc |-> raw.exc, next |-> "crashed", lorawan |-> TRUE]
             ELSE IF Len(PySlice(raw.val, 6, 8)) # 2
             THEN [exc |-> "struct.error", next |-> "crashed", lorawan |-> TRUE]
             ELSE IF Len(raw.val) <= 8
             THEN [exc |-> "IndexError", next |-> "crashed", lorawan |-> TRUE]
             ELSE LET frm == PySlice(raw.val, 9, Len(raw.val) - 4)
                      fport == raw.val[9]
                  IN  [exc |-> "none", lorawan |-> TRUE,
                       next |-> IF fport = 0 \/ frm = <<>> THEN "recv" ELSE "lookup",
                       rx |-> rx,
                       uplink_dev_addr_hex |-> Hex(Reverse(PySlice(raw.val, 1, 5))),
                       uplink_fcnt |-> raw.val[7] + 256 * raw.val[8],
                       uplink_fport |-> fport,
                       frm_payload_encrypted |-> frm]

ClassifyRx(payload) ==
    IF Len(payload.rxpk) = 0
    THEN [exc |-> "IndexError", next |-> "crashed", lorawan |-> FALSE]
    ELSE LET rx == payload.rxpk[Len(payload.rxpk)]
             raw == b64decode(rx.data)
         IN  IF rx.freq < P2PFreqLimit
             THEN IF raw.exc # "none"
                  THEN [exc |-> raw.exc, next |-> "crashed", lorawan |-> FALSE]
                  ELSE [exc |-> "none", next |-> "recv", lorawan |-> FALSE]
             ELSE IF downlink_freq(rx.freq).exc # "none"
             THEN [exc |-> "ValueError", next |-> "crashed", lorawan |-> TRUE]
             ELSE IF raw.exc # "none"
             THEN [exc |-> raw.exc, next |-> "crashed", lorawan |-> TRUE]
             ELSE IF Len(PySlice(raw.val, 6, 8)) # 2
             THEN [exc |-> "struct.error", next |-> "crashed", lorawan |-> TRUE]
             ELSE IF Len(raw.val) <= 8
             THEN [exc |-> "IndexError", next |-> "crashed", lorawan |-> TRUE]
             ELSE LET frm == PySlice(raw.val, 9, Len(raw.val) - 4)
                      fport == raw.val[9]
                  IN  [exc |-> "none", lorawan |-> TRUE,
                       next |-> IF fport = 0 \/ frm = <<>> THEN "recv" ELSE "lookup",
                       rx |-> rx,
                       uplink_dev_addr_hex |-> Hex(Reverse(PySlice(raw.val, 1, 5))),
                       uplink_fcnt |-> raw.val[7] + 256 * raw.val[8],
                       uplink_fport |-> fport,
                       frm_payload_encrypted |-> frm]

\* hashlib.sha256(rxpk.model_dump_json(exclude_none=True).encode())
\*     .hexdigest()[:16]: a function of the Rxpk, taken as collision-free.
Sha256Hex16(rx) == [sha256_16 |-> rx]

\* Meta.to_dict: the dictionary keeps device, device_addr, application and
\* packet_hash, and none of the other attributes of Meta.
Meta_to_dict(meta) ==
    [device |-> meta.device, device_addr |-> meta.device_addr,
     application |-> meta.application, packet_hash |-> meta.packet_hash]

\* rxpk2everynet(...).to_dict(): DataRate.from_str raises ValueError for a datr
\* that is no member of DataRate.  `device` is the DevAddr the cache entry is
\* held under; packet_hash is random.randbytes(16).hex(), a value no two calls
\* share, held as an opaque token.
rxpk2everynet(rx, gateway_id, port, counter, device, payload) ==
    IF rx.datr \notin DataRates
    THEN [exc |-> "ValueError"]
    ELSE [exc |-> "none",
          type |-> "uplink",
          meta |-> Meta_to_dict(
                      [gateway |-> gateway_id,
                       application |-> [app_eui |-> device],
                       device |-> [dev_eui |-> device],
                       device_addr |-> device,
                       packet_id |-> Sha256Hex16(rx),
                       packet_hash |-> "randbytes"]),
          params |-> [port |-> port, rx_time |-> rx.tmst, counter_up |-> counter,
                      payload |-> payload, encrypted_payload |-> rx.data,
                      duplicate |-> FALSE]]

-----------------------------------------------------------------------------
(* Inputs of the uplink side *)

\* The thread takes no datagram once its counter fcnt has passed MaxFcnt.
MaxFcnt == 2

\* Time between two datagrams advances in steps of UpTickSeconds.
UpTickSeconds == 40

\* DevAddr of two devices, big-endian.
AddrA == <<38, 1, 27, 218>>
AddrB == <<38, 1, 27, 219>>

\* The AppSKey the directory holds for a device.
AppSKeyOf(dev_addr_hex) == <<43, 126, 21, 22, 40, 174, 210, 166, 171, 247, 21, 136, 9, 207, 79, 60>>

\* A LoRaWAN uplink PHYPayload: MHDR, DevAddr (LE), FCtrl, FCnt (LE), FPort,
\* FRMPayload, MIC.
Phy(dev_addr, f_cnt, fport, frm) ==
    <<64>> \o Reverse(dev_addr) \o <<0>> \o <<f_cnt % 256, f_cnt \div 256>>
        \o <<fport>> \o frm \o <<1, 2, 3, 4>>

\* An rxpk object of the JSON body; complete: it has every required field.
RxOf(freq, data) ==
    [complete |-> TRUE, freq |-> freq, tmst |-> 1000, tmms |-> None,
     datr |-> "SF10BW125", data |-> data]

RxUplinkA == RxOf(91520, b64encode(Phy(AddrA, 1, 57, <<17, 34>>)))
RxUplinkB == RxOf(91640, b64encode(Phy(AddrB, 2, 1, <<51>>)))
RxPortZero == RxOf(91520, b64encode(Phy(AddrA, 1, 0, <<17, 34>>)))
RxNoPayload == RxOf(91520, b64encode(Phy(AddrA, 1, 57, <<>>)))
RxShortPhy == RxOf(91520, b64encode(<<64, 218, 27, 1, 38>>))
RxOffPlan == RxOf(91700, b64encode(Phy(AddrA, 1, 57, <<17, 34>>)))
RxBadBase64 == RxOf(91520, <<16, 13, 40>>)
RxBadDatr == [RxUplinkA EXCEPT !.datr = "SF7BW250"]
RxP2P == RxOf(90230, b64encode(<<7, 1, 2, 3, 9>>))
RxP2PShort == RxOf(90230, b64encode(<<7, 1>>))
RxIncomplete == [RxUplinkA EXCEPT !.complete = FALSE]

Batch(rxpks) == [json |-> "batch", rxpk |-> rxpks]

UpBodies ==
    { NoBody, [json |-> "invalid"], Batch(<<>>), Batch(<<RxIncomplete>>),
      Batch(<<RxUplinkA>>), Batch(<<RxUplinkB>>), Batch(<<RxP2P, RxUplinkA>>),
      Batch(<<RxPortZero>>), Batch(<<RxNoPayload>>), Batch(<<RxShortPhy>>),
      Batch(<<RxOffPlan>>), Batch(<<RxBadBase64>>), Batch(<<RxBadDatr>>),
      Batch(<<RxP2P>>), Batch(<<RxP2PShort>>) }

\* Datagrams the uplink socket receives: PUSH_DATA with each body, frames of
\* other types, a frame of an unknown type, frames cut short.
UpDatagrams ==
    { [hdr |-> Frame(2, TokenA, PKT_PUSH_DATA, GatewayA).hdr, body |-> b] :
          b \in UpBodies }
    \cup { Frame(2, TokenA, PKT_PUSH_ACK, GatewayA),
           Frame(2, TokenA, PKT_PULL_DATA, GatewayA),
           Frame(2, TokenA, 9, GatewayA),
           Truncated(Frame(2, TokenA, PKT_PUSH_DATA, GatewayA), 11),
           Truncated(Frame(2, TokenA, PKT_PUSH_DATA, GatewayA), 4),
           Truncated(Frame(2, TokenA, PKT_PUSH_DATA, GatewayA), 3),
           Truncated(Frame(2, TokenA, PKT_PUSH_DATA, GatewayA), 0) }

\* What everynet_http.get_by(None, None) gives: a map (its keys), or an
\* exception.
DirectoryResults ==
    { [exc |-> "none", devices |-> m] : m \in SUBSET {Hex(AddrA), Hex(AddrB)} }
    \cup { [exc |-> "HTTPError", devices |-> {}] }

\* What everynet_http.get_by(DEVICE_ADDRESS, a) gives.
QueryResults(a) ==
    { [exc |-> "none", devices |-> {a}], [exc |-> "none", devices |-> {}],
      [exc |-> "HTTPError", devices |-> {}] }

-----------------------------------------------------------------------------
(* upstream.py: upstream_thread *)

UpInit ==
    /\ upc = "recv"
    /\ ucur = None
    /\ devices \in { update_devices(r) : r \in DirectoryResults }
    /\ usince = 0
    /\ ulog = <<>>
    /\ fcnt = 0

OnlyUp == UNCHANGED <<codecVars, downVars, mainVars>>

\* Time passes while the thread waits in recvfrom.
UpTick ==
    /\ upc = "recv"
    /\ usince <= RefreshSeconds
    /\ usince' = usince + UpTickSeconds
    /\ UNCHANGED <<upc, ucur, devices, ulog, fcnt>>
    /\ OnlyUp

\* Lines 186-190: recvfrom raises (the 60 s timeout, a socket error); the
\* handler logs and continues.  The elapsed time is counted up to two
\* timeouts past the refresh period: a later timeout changes nothing the
\* thread reads, the test of line 199 being true from then on.
UpRecvTimeout ==
    /\ upc = "recv"
    /\ usince <= RefreshSeconds + RecvTimeoutSeconds
    /\ usince' = usince + RecvTimeoutSeconds
    /\ ulog' = <<>>
    /\ ucur' = None
    /\ UNCHANGED <<upc, devices, fcnt>>
    /\ OnlyUp

\* Lines 186-196: recvfrom returns a datagram; parse_uplink, whose exceptions
\* are caught.
UpRecv ==
    /\ upc = "recv"
    /\ fcnt <= MaxFcnt
    /\ \E data \in UpDatagrams :
         LET r == parse_uplink(data) IN
         IF r.exc # "none"
         THEN /\ upc' = "recv"
              /\ ucur' = None
              /\ ulog' = <<[e |-> "parse_failed", data |-> data]>>
         ELSE /\ upc' = "refresh"
              /\ ucur' = [data |-> data, version |-> r.version, token |-> r.token,
                          ptype |-> r.ptype, gw_id |-> r.gateway_id,
                          payload |-> r.payload]
              /\ ulog' = <<>>
    /\ UNCHANGED <<devices, usince, fcnt>>
    /\ OnlyUp

\* Lines 203-204: the test of the packet type; where the thread goes.
TypeTest_NoContinue(ptype) == "ack"

TypeTest(ptype) == IF ptype # PKT_PUSH_DATA THEN "recv" ELSE "ack"

\* Line 200: the cache after a refresh.
RefreshStep_Merge(devs, result) == devs \cup update_devices(result)

RefreshStep(devs, result) == update_devices(result)

\* Lines 198-204: the periodic refresh, then the test of the packet type.
UpRefresh ==
    /\ upc = "refresh"
    /\ IF usince > RefreshSeconds
       THEN \E result \in DirectoryResults :
              /\ devices' = RefreshStep(devices, result)
              /\ usince' = 0
              /\ ulog' = Append(ulog, [e |-> "refresh", exc |-> result.exc,
                                       before |-> devices,
                                       result |-> result.devices])
       ELSE UNCHANGED <<devices, usince, ulog>>
    /\ upc' = TypeTest(ucur.ptype)
    /\ UNCHANGED <<ucur, fcnt>>
    /\ OnlyUp

\* Lines 206-224: the PUSH_ACK, the test of the payload.
UpAck ==
    /\ upc = "ack"
    /\ \E sent_ok \in BOOLEAN :
         /\ ulog' = ulog \o AckStep(ucur, sent_ok).log
         /\ upc' = AckStep(ucur, sent_ok).next
    /\ UNCHANGED <<ucur, devices, usince, fcnt>>
    /\ OnlyUp

\* Lines 228-266: the last rxpk, P2P or LoRaWAN, the PHY fields.
UpClassify ==
    /\ upc = "classify"
    /\ LET c == ClassifyRx(ucur.payload) IN
         /\ upc' = c.next
         /\ fcnt' = IF c.lorawan THEN fcnt + 1 ELSE fcnt
         /\ ucur' = IF c.next = "lookup"
                    THEN [data |-> ucur.data, gw_id |-> ucur.gw_id, rx |-> c.rx,
                          uplink_dev_addr_hex |-> c.uplink_dev_addr_hex,
                          uplink_fcnt |-> c.uplink_fcnt,
                          uplink_fport |-> c.uplink_fport,
                          frm_payload_encrypted |-> c.frm_payload_encrypted]
                    ELSE ucur
         /\ ulog' = IF c.exc # "none" THEN Append(ulog, [e |-> "raised", exc |-> c.exc])
                    ELSE ulog
    /\ UNCHANGED <<devices, usince>>
    /\ OnlyUp

\* Lines 268-275, the cache miss: new_devices is what the single-address query
\* gave.  exc: the exception it raised (nothing catches it); next: where the
\* thread goes; devices: the cache afterwards.
MissStep_NoContinue(addr, devs, new_devices) ==
    [exc |-> new_devices.exc,
     next |-> IF new_devices.exc # "none" THEN "crashed" ELSE "decrypt",
     devices |-> IF new_devices.exc = "none" /\ addr \in new_devices.devices
                 THEN devs \cup {addr} ELSE devs]

MissStep_NoInsert(addr, devs, new_devices) ==
    [exc |-> new_devices.exc,
     next |-> IF new_devices.exc # "none" THEN "crashed"
              ELSE IF addr \notin new_devices.devices THEN "recv"
              ELSE "decrypt",
     devices |-> devs]

MissStep(addr, devs, new_devices) ==
    [exc |-> new_devices.exc,
     next |-> IF new_devices.exc # "none" THEN "crashed"
              ELSE IF addr \notin new_devices.devices THEN "recv"
              ELSE "decrypt",
     devices |-> IF new_devices.exc = "none" /\ addr \in new_devices.devices
                 THEN devs \cup {addr} ELSE devs]

\* Lines 268-275: the cache, and on a miss one query of the directory (whose
\* exception nothing catches).
UpLookup ==
    /\ upc = "lookup"
    /\ IF ucur.uplink_dev_addr_hex \in devices
       THEN /\ upc' = "decrypt"
            /\ UNCHANGED <<devices, ulog>>
       ELSE \E new_devices \in QueryResults(ucur.uplink_dev_addr_hex) :
              LET m == MissStep(ucur.uplink_dev_addr_hex, devices, new_devices) IN
              /\ ulog' = Append(ulog, [e |-> "query", addr |-> ucur.uplink_dev_addr_hex,
                                       exc |-> new_devices.exc])
              /\ upc' = m.next
              /\ devices' = m.devices
    /\ UNCHANGED <<ucur, usince, fcnt>>
    /\ OnlyUp

\* Lines 277-305: decrypt, the envelope, publish.
UpPublish ==
    /\ upc = "decrypt"
    /\ LET decrypted_payload ==
               LoRaWAN_decrypt(ucur.frm_payload_encrypted,
                               AppSKeyOf(ucur.uplink_dev_addr_hex),
                               ucur.uplink_dev_addr_hex, ucur.uplink_fcnt, DirectionUP)
           everynet_msg ==
               rxpk2everynet(ucur.rx, ucur.gw_id, ucur.uplink_fport, fcnt + 1,
                             ucur.uplink_dev_addr_hex, b64encode(decrypted_payload))
           decrypted == [e |-> "decrypt", addr |-> ucur.uplink_dev_addr_hex,
                         plain |-> decrypted_payload]
       IN  IF everynet_msg.exc # "none"
           THEN /\ upc' = "crashed"
                /\ ulog' = ulog \o <<decrypted, [e |-> "raised", exc |-> everynet_msg.exc]>>
           ELSE \E rc \in {0, 1} :
                  /\ upc' = "recv"
                  /\ ulog' = ulog \o <<decrypted,
                                       [e |-> "publish", msg |-> everynet_msg, rc |-> rc]>>
    /\ fcnt' = fcnt + 1
    /\ UNCHANGED <<ucur, devices, usince>>
    /\ OnlyUp

UpNext ==
    UpTick \/ UpRecvTimeout \/ UpRecv \/ UpRefresh \/ UpAck \/ UpClassify
        \/ UpLookup \/ UpPublish

-----------------------------------------------------------------------------
(* The codec functions applied to bounded inputs *)

CodecTokens == {TokenA, <<0, 0>>, <<255, 1>>}
CodecGateways == {GatewayA, <<0, 0, 0, 0, 0, 0, 0, 255>>}

\* Type bytes: the six packet types and two values that are none.
CodecTypeBytes == {PKT_PUSH_DATA, PKT_PUSH_ACK, PKT_PULL_DATA, PKT_PULL_RESP,
                   PKT_PULL_ACK, PKT_TX_ACK, 6, 255}

\* Datagrams of every length from 0 to HeaderLen bytes, and full frames with a
\* body.
CodecDatagrams ==
    { Truncated(Frame(2, tok, t, GatewayA), n) :
          tok \in {TokenA}, t \in CodecTypeBytes, n \in 0..HeaderLen }
    \cup { [hdr |-> Frame(2, TokenA, t, GatewayA).hdr, body |-> b] :
               t \in CodecTypeBytes, b \in UpBodies \ {NoBody} }

CodecInit == cdc = [op |-> "init"]

OnlyCodec == UNCHANGED <<downVars, upVars, mainVars>>

\* parse_uplink(generate_header(b"\x02", token, type, gateway_id) + body)
CodecRoundTrip ==
    /\ cdc.op = "init"
    /\ \E token \in CodecTokens, ptype \in CodecTypeBytes \ {6, 255},
          gw \in CodecGateways, body \in UpBodies :
         cdc' = [op |-> "roundtrip", token |-> token, ptype |-> ptype,
                 gateway_id |-> gw, body |-> body,
                 out |-> parse_uplink(
                            [hdr |-> generate_header(<<2>>, token, ptype, Hex(gw)),
                             body |-> body])]
    /\ OnlyCodec

\* parse_uplink(data), of upstream.py and of helpers.py
CodecDecode ==
    /\ cdc.op = "init"
    /\ \E data \in CodecDatagrams :
         cdc' = [op |-> "decode", data |-> data, out |-> parse_uplink(data),
                 out_helpers |-> helpers_parse_uplink(data)]
    /\ OnlyCodec

\* build_pull_resp(token, gateway_id, downlink)
CodecPullResp ==
    /\ cdc.op = "init"
    /\ \E token \in CodecTokens, gw \in CodecGateways,
          pytype \in EntryTypes, id \in 1..MaxEnq :
         cdc' = [op |-> "pull_resp", token |-> token, gateway_id |-> gw,
                 downlink |-> Downlink(pytype, id),
                 out |-> build_pull_resp(token, Hex(gw), Downlink(pytype, id))]
    /\ OnlyCodec

CodecNext == CodecRoundTrip \/ CodecDecode \/ CodecPullResp

-----------------------------------------------------------------------------
(* lorawan.py: encrypt, mic, build_downlink, parse_downlink *)

DirectionDOWN == 1

\* s of LoRaWAN.encrypt: block[: min(16, size)] of each block, while size > 0.
RECURSIVE EncryptStream(_, _, _, _, _, _)
EncryptStream(key, direction, dev_addr_le, f_cnt, block_num, size) ==
    IF size <= 0 THEN <<>>
    ELSE PySlice(AES_ECB(key, <<1, 0, 0, 0, 0>> \o <<direction>> \o dev_addr_le
                                 \o LE32(f_cnt) \o <<0>> \o <<block_num>>),
                 0, Min(16, size))
         \o EncryptStream(key, direction, dev_addr_le, f_cnt, block_num + 1, size - 16)

\* LoRaWAN.encrypt
LoRaWAN_encrypt_Add(application_session_key, dev_addr, f_cnt, direction, data) ==
    [i \in 1..Len(data) |->
        (data[i] + EncryptStream(application_session_key, direction, Reverse(dev_addr),
                                 f_cnt, 1, Len(data))[i]) % 256]

LoRaWAN_encrypt(application_session_key, dev_addr, f_cnt, direction, data) ==
    [i \in 1..Len(data) |->
        Xor(data[i],
            EncryptStream(application_session_key, direction, Reverse(dev_addr),
                          f_cnt, 1, Len(data))[i])]

\* CMAC.new(key, ciphermod=AES).update(msg).digest()[:4]: the library's MAC,
\* held here as a fixed function of the key and the message.
CMAC4(key, msg) ==
    [j \in 1..4 |-> (SumSeq(key) * 3 + SumSeq(msg) * 5 + Len(msg) * j + 17 * j) % 256]

\* LoRaWAN.mic
LoRaWAN_mic(network_session_key, dev_addr, f_cnt, direction, msg) ==
    CMAC4(network_session_key,
          <<73, 0, 0, 0, 0>> \o <<direction>> \o Reverse(dev_addr) \o LE32(f_cnt)
              \o <<0>> \o <<Len(msg)>> \o msg)

\* struct.pack("<H", n) takes 0 <= n <= 65535.
UShortMax == 65535

\* LoRaWAN.build_downlink: (base64 of the PHY, len of the PHY); struct.error
\* when fcnt does not fit struct.pack("<H", fcnt).
LoRaWAN_build_downlink_PayloadSize(dev_addr_hex, network_session_key_hex, application_session_key_hex, payload, f_cnt, fport, confirmed) ==
    IF f_cnt > UShortMax
    THEN [exc |-> "struct.error"]
    ELSE LET dev_addr == FromHex(dev_addr_hex)
             mhdr == IF confirmed THEN <<160>> ELSE <<96>>
             fhdr == Reverse(dev_addr) \o <<0>> \o <<f_cnt % 256, f_cnt \div 256>>
             frm_payload == LoRaWAN_encrypt(FromHex(application_session_key_hex),
                                            dev_addr, f_cnt, DirectionDOWN, payload)
             mac_payload == fhdr \o <<fport>> \o frm_payload
             mic == LoRaWAN_mic(FromHex(network_session_key_hex), dev_addr, f_cnt, 1,
                                mhdr \o mac_payload)
             phy == mhdr \o mac_payload \o mic
         IN  [exc |-> "none", data |-> b64encode(phy), size |-> Len(payload)]

LoRaWAN_build_downlink(dev_addr_hex, network_session_key_hex, application_session_key_hex, payload, f_cnt, fport, confirmed) ==
    IF f_cnt > UShortMax
    THEN [exc |-> "struct.error"]
    ELSE LET dev_addr == FromHex(dev_addr_hex)
             mhdr == IF confirmed THEN <<160>> ELSE <<96>>
             fhdr == Reverse(dev_addr) \o <<0>> \o <<f_cnt % 256, f_cnt \div 256>>
             frm_payload == LoRaWAN_encrypt(FromHex(application_session_key_hex),
                                            dev_addr, f_cnt, DirectionDOWN, payload)
             mac_payload == fhdr \o <<fport>> \o frm_payload
             mic == LoRaWAN_mic(FromHex(network_session_key_hex), dev_addr, f_cnt, 1,
                                mhdr \o mac_payload)
             phy == mhdr \o mac_payload \o mic
         IN  [exc |-> "none", data |-> b64encode(phy), size |-> Len(phy)]

\* "a or b" of Python on values that are an int (JInt) or None.
PyOr(a, b) == IF a = None \/ a = JInt(0) THEN b ELSE a

\* What Txpk(freq=...) holds in tmms: the default of Txpk.__init__.
TxpkInitTmms == JInt(0)

\* LoRaWAN.parse_downlink: the Txpk scheduled for an uplink rxpk, None when the
\* rxpk is dropped; ValueError from downlink_freq, struct.error from
\* build_downlink.  (The decrypted payload is only logged.)
LoRaWAN_parse_downlink(dev_addr, network_session_key, application_session_key, f_cnt, rxpk, payload) ==
    LET raw == b64decode(rxpk.data)
        built == LoRaWAN_build_downlink(dev_addr, network_session_key,
                                        application_session_key, payload,
                                        f_cnt + 2, 57, FALSE)
    IN  IF downlink_freq(rxpk.freq).exc # "none" THEN [exc |-> "ValueError", val |-> None]
        ELSE IF raw.exc # "none" THEN [exc |-> "none", val |-> None]
        ELSE IF Len(raw.val) < 12 THEN [exc |-> "none", val |-> None]
        ELSE IF raw.val[9] = 0 \/ PySlice(raw.val, 9, Len(raw.val) - 4) = <<>>
        THEN [exc |-> "none", val |-> None]
        ELSE IF built.exc # "none" THEN [exc |-> built.exc, val |-> None]
        ELSE [exc |-> "none",
              val |-> [pytype |-> "Txpk",
                       freq |-> downlink_freq(rxpk.freq).val,
                       tmst |-> rxpk.tmst + 5000000,
                       tmms |-> PyOr(TxpkInitTmms, JInt(0 + 5000)),
                       ipol |-> TRUE,
                       datr |-> "SF10BW500",
                       data |-> built.data,
                       size |-> built.size]]

-----------------------------------------------------------------------------
(* The functions of lorawan.py applied to bounded inputs *)

\* The longest payload given to encrypt, decrypt and build_downlink.
MaxDataLen == 17

DataOf(n) == [i \in 1..n |-> (i * 37 + 11) % 256]

LwPayloads == { DataOf(n) : n \in {0, 1, 16, MaxDataLen} } \cup { <<0, 255>> }

LwKeys == { AppSKeyOf(Hex(AddrA)), [i \in 1..16 |-> i] }

LwAddrs == { AddrA, AddrB }

\* Frame counters: below, at and above the 16-bit limit.
LwFcnts == { 0, 1, UShortMax, UShortMax + 1, 70000 }

\* Frequencies in hundredths of MHz: the plan, its neighbours and the values
\* between two channels.
LwFreqs == { 91480 + 5 * k : k \in 0..44 }

\* Uplink rxpk with and without tmms, and rxpk that are dropped.
LwRxpks ==
    { RxUplinkA, [RxUplinkA EXCEPT !.tmms = JInt(1000)],
      RxUplinkB, [RxUplinkB EXCEPT !.tmms = JInt(7)],
      RxPortZero, RxNoPayload, RxShortPhy, RxOffPlan, RxBadBase64 }

\* LoRaWAN.encrypt, twice, and LoRaWAN.decrypt of the same arguments
LwEncrypt ==
    /\ cdc.op = "init"
    /\ \E key \in LwKeys, dev_addr \in LwAddrs, f_cnt \in LwFcnts,
          direction \in {DirectionUP, DirectionDOWN}, data \in LwPayloads :
         cdc' = [op |-> "encrypt", key |-> key, dev_addr |-> dev_addr,
                 f_cnt |-> f_cnt, direction |-> direction, data |-> data,
                 out |-> LoRaWAN_encrypt(key, dev_addr, f_cnt, direction, data),
                 twice |-> LoRaWAN_encrypt(key, dev_addr, f_cnt, direction,
                              LoRaWAN_encrypt(key, dev_addr, f_cnt, direction, data)),
                 dec |-> LoRaWAN_decrypt(data, key, Hex(dev_addr), f_cnt, direction)]
    /\ OnlyCodec

\* LoRaWAN.build_downlink
LwBuildDownlink ==
    /\ cdc.op = "init"
    /\ \E dev_addr \in LwAddrs, payload \in LwPayloads, f_cnt \in LwFcnts,
          fport \in {1, 57}, confirmed \in BOOLEAN :
         cdc' = [op |-> "build_downlink", dev_addr |-> dev_addr, payload |-> payload,
                 f_cnt |-> f_cnt, fport |-> fport, confirmed |-> confirmed,
                 out |-> LoRaWAN_build_downlink(
                            Hex(dev_addr), Hex([i \in 1..16 |-> i]),
                            Hex(AppSKeyOf(Hex(dev_addr))), payload, f_cnt, fport,
                            confirmed)]
    /\ OnlyCodec

\* LoRaWAN.downlink_freq (helpers.uplink_freq_to_downlink_freq has the same
\* body)
LwDownlinkFreq ==
    /\ cdc.op = "init"
    /\ \E freq \in LwFreqs :
         cdc' = [op |-> "downlink_freq", freq |-> freq, out |-> downlink_freq(freq)]
    /\ OnlyCodec

\* LoRaWAN.parse_downlink
LwParseDownlink ==
    /\ cdc.op = "init"
    /\ \E rxpk \in LwRxpks, f_cnt \in {0, 1}, payload \in {DataOf(1), DataOf(16)} :
         cdc' = [op |-> "parse_downlink", rxpk |-> rxpk, f_cnt |-> f_cnt,
                 out |-> LoRaWAN_parse_downlink(
                            Hex(AddrA), Hex([i \in 1..16 |-> i]),
                            Hex(AppSKeyOf(Hex(AddrA))), f_cnt, rxpk, payload)]
    /\ OnlyCodec

LwNext == LwEncrypt \/ LwBuildDownlink \/ LwDownlinkFreq \/ LwParseDownlink

-----------------------------------------------------------------------------
(* main.py: main *)

\* The functions a thread can be started on.
ThreadTargets == {"upstream_thread", "downstream_task"}

\* main() is not run: a task is called directly.
MainIdle ==
    /\ mpc = "not_run"
    /\ mthreads = {}

MainInit ==
    /\ mpc = "config"
    /\ mthreads = {}

OnlyMain == UNCHANGED <<codecVars, downVars, upVars>>

\* Lines 27-49: logging, the configuration file is read and validated (an
\* exception ends main), the HTTP and MQTT clients are made.
MainConfigure ==
    /\ mpc = "config"
    /\ \E valid \in BOOLEAN : mpc' = IF valid THEN "connect" ELSE "crashed"
    /\ UNCHANGED mthreads
    /\ OnlyMain

\* Lines 51-54: mqtt.connect; main returns on an error code.
MainConnect ==
    /\ mpc = "connect"
    /\ \E err \in {0, 1} : mpc' = IF err # 0 THEN "returned" ELSE "loop_start"
    /\ UNCHANGED mthreads
    /\ OnlyMain

\* Lines 56-59: mqtt.loop_start; main returns on an error code.
MainLoopStart ==
    /\ mpc = "loop_start"
    /\ \E err \in {0, 1} : mpc' = IF err # 0 THEN "returned" ELSE "start"
    /\ UNCHANGED mthreads
    /\ OnlyMain

\* Lines 61-65: the one thread main makes is started on upstream_thread,
\* which runs lines 174-183 of upstream.py and reaches its loop.
MainStartThreads ==
    /\ mpc = "start"
    /\ mpc' = "join"
    /\ mthreads' = mthreads \cup {"upstream_thread"}
    /\ devices' \in { update_devices(r) : r \in DirectoryResults }
    /\ UNCHANGED <<upc, ucur, usince, ulog, fcnt>>
    /\ UNCHANGED <<codecVars, downVars>>

\* A step of a thread main has started.
MainThreadStep ==
    /\ "upstream_thread" \in mthreads
    /\ UpNext

\* Lines 67-68: join returns when upstream_thread has ended; loop_stop.
MainJoin ==
    /\ mpc = "join"
    /\ upc = "crashed"
    /\ mpc' = "returned"
    /\ UNCHANGED mthreads
    /\ OnlyMain

MainNext ==
    MainConfigure \/ MainConnect \/ MainLoopStart \/ MainStartThreads
        \/ MainThreadStep \/ MainJoin

-----------------------------------------------------------------------------
(* Specifications *)

\* The uplink thread not started.
UpIdle ==
    /\ upc = "recv"
    /\ ucur = None
    /\ devices = {}
    /\ usince = 0
    /\ ulog = <<>>
    /\ fcnt = 0

\* The state after construction, the uplink thread not started.
Init == CodecInit /\ DownInit /\ UpIdle /\ MainIdle

\* The state after construction, upstream_thread having reached its loop.
InitUp == CodecInit /\ DownInit /\ UpInit /\ MainIdle

\* The state when main() is entered, no thread started.
InitMain == CodecInit /\ DownInit /\ UpIdle /\ MainInit

SpecDown == Init /\ [][DownNext]_vars

SpecUp == InitUp /\ [][UpNext]_vars

SpecCodec == Init /\ [][CodecNext]_vars

SpecLoRaWAN == Init /\ [][LwNext]_vars

SpecMain == InitMain /\ [][MainNext]_vars

\* downstream_task runs and time advances: the clock ticks up to the end of
\* the model's time, and a step of the drain loop that can be taken is taken.
\* The arrival of datagrams and the producer's puts are left free.
SpecDownFair ==
    /\ Init
    /\ [][DownNext]_vars
    /\ WF_vars(DownTick)
    /\ WF_vars(DownLoopTest)
    /\ WF_vars(DownGet)

\* upstream_thread runs: a step of the thread that can be taken is taken, and
\* recvfrom with settimeout(60.0) returns by its timeout when no datagram
\* comes.  The arrival of datagrams is left to the network.
SpecUpFair ==
    /\ InitUp
    /\ [][UpNext]_vars
    /\ WF_vars(UpRecvTimeout)
    /\ WF_vars(UpRefresh \/ UpAck \/ UpClassify \/ UpLookup \/ UpPublish)

-----------------------------------------------------------------------------
(* Claims about the downlink scheduler, under SpecDown *)

CycleOver == dhist.cyc.active /\ dpc \in {"recv", "crashed"}

SentCount(id) == Cardinality({i \in 1..Len(dhist.sentIds) : dhist.sentIds[i] = id})

InQueue(id) == \E k \in 1..Len(dqueue) : dqueue[k].downlink.id = id

C3_EmittedIffDue ==
    (CycleOver /\ dhist.cyc.head0 # None) =>
        LET delta == dhist.cyc.head0.tmms - dhist.cyc.t0
            id == dhist.cyc.head0.downlink.id
        IN  /\ (0 <= delta /\ delta <= RipeWindow) <=> (SentCount(id) = 1)
            /\ delta > RipeWindow => (InQueue(id) /\ SentCount(id) = 0)
            /\ delta < 0 => (~InQueue(id) /\ SentCount(id) = 0)

C5_DueBehindExpiredIsSent ==
    dhist.cyc.ripeAfterDrop =>
        /\ dhist.cyc.cycSent = 1
        /\ SentCount(dhist.cyc.ripe) = 1

-----------------------------------------------------------------------------
(* Claims about the uplink pipeline, under SpecUp *)

LogIndexes(kind) == {i \in 1..Len(ulog) : ulog[i].e = kind}

\* C6: within the processing of one uplink datagram no publish call happens
\* before the PUSH_ACK of that datagram has been sent.
C6_AckBeforePublish ==
    \A i \in LogIndexes("publish") : \E j \in LogIndexes("ack") : j < i

\* A datagram for which the PUSH_ACK was sent and then publish was called.
C6_Witness ==
    \E i \in LogIndexes("publish") : \E j \in LogIndexes("ack") : j < i

\* C7: the PUSH_ACK sent for a PUSH_DATA frame is the 12-byte header that
\* echoes the frame: byte 0 the received version, bytes 1-2 the received
\* token, byte 3 PUSH_ACK, bytes 4-11 the received gateway identifier.
C7_AckEchoesHeader ==
    \A i \in LogIndexes("ack") :
        Len(ucur.data.hdr) = HeaderLen =>
            ulog[i].data = <<ucur.data.hdr[1]>> \o SubSeq(ucur.data.hdr, 2, 3)
                              \o <<PKT_PUSH_ACK>> \o SubSeq(ucur.data.hdr, 5, HeaderLen)

-----------------------------------------------------------------------------
(* Claims about the Semtech codec, under SpecCodec *)

\* The body a decoded payload stands for.
BodyOf(payload) == IF payload = None THEN NoBody ELSE Batch(payload.rxpk)

\* C8: decoding encode_header(2, token, type, gateway_id) || body returns
\* (version 2, token, type, gateway_id, body).
C8_RoundTrip ==
    cdc.op = "roundtrip" =>
        /\ cdc.out.exc = "none"
        /\ cdc.out.version = <<2>>
        /\ cdc.out.token = cdc.token
        /\ cdc.out.ptype = cdc.ptype
        /\ FromHex(cdc.out.gateway_id) = cdc.gateway_id
        /\ BodyOf(cdc.out.payload) = cdc.body

\* C9: decoding fails for every input shorter than 12 bytes and for every
\* input whose type byte is none of 0..5.
C9_DecodeRejects ==
    ( /\ cdc.op = "decode"
      /\ \/ DataLen(cdc.data) < HeaderLen
         \/ (Len(cdc.data.hdr) >= 4
               /\ cdc.data.hdr[4] \notin PKT_PUSH_DATA..PKT_TX_ACK) )
    => cdc.out.exc # "none"

\* C10: a PULL_RESP is the header (version 2, token, PULL_RESP, gateway_id)
\* followed by a space-free JSON object whose single top-level key is "txpk".
C10_PullRespShape ==
    (cdc.op = "pull_resp" /\ cdc.out.exc = "none") =>
        /\ cdc.out.hdr = <<2>> \o cdc.token \o <<PKT_PULL_RESP>> \o cdc.gateway_id
        /\ TopLevelKeys(cdc.out.body) = <<"txpk">>

-----------------------------------------------------------------------------
(* Claims about the device cache, under SpecUp *)

\* C11: the FRMPayload of an uplink is decrypted only with its DevAddr in the
\* device cache (already there, or inserted by the miss query of this uplink).
C11_DecryptOnlyCached ==
    /\ upc = "decrypt" => ucur.uplink_dev_addr_hex \in devices
    /\ \A i \in LogIndexes("decrypt") : ulog[i].addr \in devices

\* A decryption that followed a miss query for this uplink.
C11_Witness ==
    \E i \in LogIndexes("decrypt") : \E j \in LogIndexes("query") : j < i

\* C12: when a periodic refresh fails because the directory is unavailable,
\* the device cache after the refresh equals the cache before it.
C12_FailedRefreshKeepsCache ==
    [][ (/\ upc = "refresh"
         /\ Len(ulog') = Len(ulog) + 1
         /\ ulog'[Len(ulog')].e = "refresh"
         /\ ulog'[Len(ulog')].exc # "none")
        => devices' = devices ]_vars

\* C13: once more than 60 s have passed since the last refresh, a refresh is
\* eventually made, the recv timeouts acting as ticks, even if no datagram
\* ever arrives.
C13_RefreshWithoutTraffic ==
    (upc = "recv" /\ usince > RefreshSeconds) ~> (usince = 0)

\* C14: an uplink whose DevAddr is in the cache is served from it with no
\* query; on a miss exactly one single-address query is made; when it returns
\* the address the device is inserted and the uplink goes on to decryption;
\* when it does not, the packet is dropped with no publish and the cache is
\* unchanged.
C14_MissPath ==
    [][ upc = "lookup" =>
          LET addr == ucur.uplink_dev_addr_hex
              queries == {i \in 1..Len(ulog') : ulog'[i].e = "query"}
              publishes == {i \in 1..Len(ulog') : ulog'[i].e = "publish"}
          IN  IF addr \in devices
              THEN /\ ulog' = ulog
                   /\ queries = {}
                   /\ devices' = devices
                   /\ upc' = "decrypt"
              ELSE /\ queries = {Len(ulog) + 1}
                   /\ Len(ulog') = Len(ulog) + 1
                   /\ ulog'[Len(ulog')].addr = addr
                   /\ upc' = "decrypt" => devices' = devices \cup {addr}
                   /\ upc' # "decrypt" => (devices' = devices /\ publishes = {}) ]_vars

\* A miss whose query did not return the address: the packet was dropped.
C14_Witness ==
    /\ upc = "recv"
    /\ \E i \in LogIndexes("query") :
          ulog[i].exc = "none" /\ ulog[i].addr \notin devices
    /\ LogIndexes("publish") = {}

-----------------------------------------------------------------------------
(* Claims about errors *)

\* C15: whatever datagrams are received and whatever the directory and the
\* publisher do, the uplink task never terminates.
C15_UplinkNeverTerminates == upc # "crashed"

\* C16: a datagram received on the downlink socket, a malformed frame or a
\* frame of an unknown type included, never ends the downlink task: the
\* receive step sends nothing, leaves the queue alone and the task goes on.
C16_DownlinkDropsBadFrame ==
    [][ dpc = "recv" =>
          (dpc' # "crashed" /\ dsent' = dsent /\ (dqueue' # dqueue => denq' # denq))
      ]_vars

\* The datagram in hand carries a last rxpk, and that rxpk.
HasRx ==
    /\ ucur # None
    /\ \/ "rx" \in DOMAIN ucur
       \/ /\ "payload" \in DOMAIN ucur
          /\ ucur.payload # None
          /\ Len(ucur.payload.rxpk) > 0

CurRx ==
    IF "rx" \in DOMAIN ucur THEN ucur.rx
    ELSE ucur.payload.rxpk[Len(ucur.payload.rxpk)]

\* The last rxpk is in the LoRaWAN branch: its frequency is not below
\* 903.5 MHz.
InLoRaWANBranch == HasRx /\ CurRx.freq >= P2PFreqLimit

\* The bytes of its PHY payload.
CurPhy == b64decode(CurRx.data)

\* The handling of the datagram in hand is over.
UplinkDone == ucur # None /\ upc \in {"recv", "crashed"}

\* No directory query, no decryption and no publish was made for the datagram
\* in hand, and none is about to be.
NothingDone ==
    /\ LogIndexes("query") = {}
    /\ LogIndexes("decrypt") = {}
    /\ LogIndexes("publish") = {}
    /\ upc \notin {"lookup", "decrypt"}

\* C17: in the LoRaWAN branch a PHY payload shorter than 12 bytes, or whose
\* base64 cannot be decoded, is rejected: no lookup, no decryption, no publish,
\* and the pipeline goes on with the next datagram.
C17_InvalidPhyRejected ==
    ( /\ InLoRaWANBranch
      /\ downlink_freq(CurRx.freq).exc = "none"
      /\ (CurPhy.exc # "none" \/ Len(CurPhy.val) < 12) )
    => (NothingDone /\ upc # "crashed")

\* C18: a PUSH_DATA whose last rxpk is in the LoRaWAN branch, with FPort # 0,
\* a non-empty FRMPayload and its DevAddr in the cache, is acknowledged and
\* gives exactly one publish call, of an envelope of type "uplink" with
\* params.port the FPort and params.payload the base64 of the FRMPayload
\* decrypted with the AppSKey, the FCnt of the PHY and DIR = UP.
C18_UplinkPublishedOnce ==
    ( /\ UplinkDone
      /\ InLoRaWANBranch
      /\ LogIndexes("ack") # {}
      /\ CurPhy.exc = "none"
      /\ Len(CurPhy.val) > 13
      /\ CurPhy.val[9] # 0
      /\ Hex(Reverse(PySlice(CurPhy.val, 1, 5))) \in devices )
    => LET raw == CurPhy.val
           addr == Hex(Reverse(PySlice(raw, 1, 5)))
           plain == LoRaWAN_decrypt(PySlice(raw, 9, Len(raw) - 4), AppSKeyOf(addr),
                                    addr, raw[7] + 256 * raw[8], DirectionUP)
       IN  /\ Cardinality(LogIndexes("publish")) = 1
           /\ \A i \in LogIndexes("publish") :
                 /\ ulog[i].msg.type = "uplink"
                 /\ ulog[i].msg.params.port = raw[9]
                 /\ ulog[i].msg.params.payload = b64encode(plain)

\* The last rxpk carries a PHY with FPort = 0 or with an empty FRMPayload.
NoApplicationPayload ==
    /\ InLoRaWANBranch
    /\ CurPhy.exc = "none"
    /\ Len(CurPhy.val) > 8
    /\ \/ CurPhy.val[9] = 0
       \/ PySlice(CurPhy.val, 9, Len(CurPhy.val) - 4) = <<>>

\* C20: an uplink whose PHY has FPort = 0 or an empty FRMPayload is never
\* published, never decrypted and causes no directory query, and its
\* PUSH_DATA has been acknowledged by the time its rxpk is looked at.
C20_NoPayloadIgnored ==
    NoApplicationPayload =>
        /\ NothingDone
        /\ (upc = "classify" \/ LogIndexes("raised") # {}) => LogIndexes("ack") # {}

\* Such an uplink was acknowledged and its handling is over.
C20_Witness ==
    NoApplicationPayload /\ upc = "recv" /\ LogIndexes("ack") # {}

\* C19: every published uplink envelope carries in its meta a packet_id, the
\* first 16 hex characters of SHA-256 over the JSON of the Rxpk.
C19_EnvelopeCarriesPacketId ==
    \A i \in LogIndexes("publish") :
        /\ "packet_id" \in DOMAIN ulog[i].msg.meta
        /\ ulog[i].msg.meta.packet_id = Sha256Hex16(CurRx)

-----------------------------------------------------------------------------
(* Claims about the P2P branch, under SpecUp *)

\* The last rxpk is in the P2P branch: its frequency is below 903.5 MHz.
InP2PBranch == HasRx /\ CurRx.freq < P2PFreqLimit

\* C21: an uplink whose last rxpk has freq < 903.5 MHz is never published,
\* never looked up and never decrypted; a P2P frame (one shorter than 4 bytes
\* included) is dropped and the pipeline goes on.
C21_P2PNeverPublished ==
    InP2PBranch =>
        /\ NothingDone
        /\ CurPhy.exc = "none" => (upc # "crashed" /\ LogIndexes("raised") = {})

\* A P2P frame shorter than 4 bytes was acknowledged and dropped.
C21_Witness ==
    /\ InP2PBranch
    /\ CurPhy.exc = "none"
    /\ Len(CurPhy.val) < 4
    /\ upc = "recv"
    /\ LogIndexes("ack") # {}

-----------------------------------------------------------------------------
(* Claims about the functions of lorawan.py, under SpecLoRaWAN *)

\* C22: encrypt applied twice with the same key, DevAddr, FCnt and direction
\* gives the data back, and the output is as long as the input.
C22_EncryptInvolution ==
    cdc.op = "encrypt" =>
        /\ cdc.twice = cdc.data
        /\ Len(cdc.out) = Len(cdc.data)

\* Data of more than one block was encrypted, and changed by it.
C22_Witness ==
    cdc.op = "encrypt" /\ Len(cdc.data) > 16 /\ cdc.out # cdc.data

\* C23: decrypt(payload, key, dev_addr_hex, fcnt, dir) returns the bytes of
\* encrypt(key, bytes of dev_addr_hex, fcnt, dir, payload), also for payloads
\* that are no multiple of 16 bytes and for the empty payload.
C23_DecryptIsEncrypt ==
    cdc.op = "encrypt" => cdc.dec = cdc.out

\* A payload of one byte went through both.
C23_Witness ==
    cdc.op = "encrypt" /\ Len(cdc.data) = 1 /\ cdc.dec # cdc.data

\* C24: build_downlink returns base64(PHY) and len(PHY), with PHY = MHDR ||
\* DevAddr (LE) || FCtrl = 0 || FCnt (LE, 2) || FPort || FRMPayload || MIC (4)
\* and MHDR = 0xA0 if confirmed else 0x60; the length is 13 + len(payload) and
\* equals the length of the base64-decoded data.
C24_BuildDownlinkLayout ==
    (cdc.op = "build_downlink" /\ cdc.out.exc = "none") =>
        LET phy == b64decode(cdc.out.data).val
            n == Len(cdc.payload)
        IN  /\ b64decode(cdc.out.data).exc = "none"
            /\ Len(phy) = 13 + n
            /\ cdc.out.size = Len(phy)
            /\ phy[1] = IF cdc.confirmed THEN 160 ELSE 96
            /\ SubSeq(phy, 2, 5) = Reverse(cdc.dev_addr)
            /\ phy[6] = 0
            /\ SubSeq(phy, 7, 8) = <<cdc.f_cnt % 256, cdc.f_cnt \div 256>>
            /\ phy[9] = cdc.fport
            /\ SubSeq(phy, 10, 9 + n) =
                   LoRaWAN_encrypt(AppSKeyOf(Hex(cdc.dev_addr)), cdc.dev_addr,
                                   cdc.f_cnt, DirectionDOWN, cdc.payload)
            /\ SubSeq(phy, 10 + n, 13 + n) =
                   LoRaWAN_mic([i \in 1..16 |-> i], cdc.dev_addr, cdc.f_cnt,
                               DirectionDOWN, SubSeq(phy, 1, 9 + n))

\* A confirmed downlink with a payload of more than one block was built.
C24_Witness ==
    /\ cdc.op = "build_downlink"
    /\ cdc.out.exc = "none"
    /\ cdc.confirmed
    /\ Len(cdc.payload) > 16

\* C25: for every 32-bit FCnt, 65536 and above included, build_downlink
\* produces a PHY whose FHDR carries the low 16 bits of FCnt, little-endian.
C25_FcntLow16InFhdr ==
    cdc.op = "build_downlink" =>
        /\ cdc.out.exc = "none"
        /\ SubSeq(b64decode(cdc.out.data).val, 7, 8) =
               <<cdc.f_cnt % 256, (cdc.f_cnt \div 256) % 256>>

\* C26: the uplink frequency 915.2 + 0.2 i MHz (i = 0..7) maps to
\* 923.3 + 0.6 i MHz; a frequency whose rounding to one decimal is not an
\* uplink frequency makes downlink_freq raise.
C26_FrequencyMapping ==
    cdc.op = "downlink_freq" =>
        /\ \A i \in 0..7 :
              cdc.freq = 91520 + 20 * i =>
                 (cdc.out.exc = "none" /\ cdc.out.val = 92330 + 60 * i)
        /\ (\A i \in 0..7 : Format1f(cdc.freq) # 9152 + 2 * i) => cdc.out.exc # "none"

\* The last channel, 916.6 MHz, was mapped.
C26_Witness ==
    cdc.op = "downlink_freq" /\ cdc.freq = 91660 /\ cdc.out.exc = "none"

\* C27, as claimed: downlink_freq(915.2) = 923.3 and downlink_freq(916.4) =
\* 924.5.
C27_ExamplesAsClaimed ==
    cdc.op = "downlink_freq" =>
        /\ cdc.freq = 91520 => (cdc.out.exc = "none" /\ cdc.out.val = 92330)
        /\ cdc.freq = 91640 => (cdc.out.exc = "none" /\ cdc.out.val = 92450)

\* C27, amended: downlink_freq(915.2) = 923.3 and downlink_freq(916.4) =
\* 926.9; 924.5 is downlink_freq(915.6).
C27_Examples ==
    cdc.op = "downlink_freq" =>
        /\ cdc.freq = 91520 => (cdc.out.exc = "none" /\ cdc.out.val = 92330)
        /\ cdc.freq = 91640 => (cdc.out.exc = "none" /\ cdc.out.val = 92690)
        /\ cdc.freq = 91560 => (cdc.out.exc = "none" /\ cdc.out.val = 92450)

\* 916.4 MHz was mapped.
C27_Witness ==
    cdc.op = "downlink_freq" /\ cdc.freq = 91640 /\ cdc.out.exc = "none"

\* C28: the Txpk scheduled from an uplink rxpk has tmst = rxpk.tmst +
\* 5 000 000 and tmms = (rxpk.tmms or 0) + 5000.
C28_ScheduledTimes ==
    (cdc.op = "parse_downlink" /\ cdc.out.exc = "none" /\ cdc.out.val # None) =>
        /\ cdc.out.val.tmst = cdc.rxpk.tmst + 5000000
        /\ cdc.out.val.tmms =
               JInt((IF cdc.rxpk.tmms = None THEN 0 ELSE cdc.rxpk.tmms.n) + 5000)

-----------------------------------------------------------------------------
(* Claims about main, under SpecMain *)

\* C29: the supervisor starts both the uplink and the downlink pipeline:
\* once start-up is over, both tasks are running.
C29_BothPipelinesStarted ==
    mpc = "join" => mthreads = ThreadTargets

-----------------------------------------------------------------------------
(* Claims about the refresh of the device cache, under SpecUp *)

\* C30: a successful refresh replaces the cache as a whole: from the refresh
\* on, and until the miss path inserts again, the cache is exactly the map
\* the directory returned, so an entry that is not in the directory is gone,
\* and no step of the thread reads a mixture of the old and the new map.
C30_RefreshReplaces ==
    \A i \in LogIndexes("refresh") :
        (ulog[i].exc = "none" /\ LogIndexes("query") = {}) =>
            devices = ulog[i].result

\* The cache held a device the directory no longer returns, a refresh
\* succeeded, and the thread went on with the new cache.
C30_Witness ==
    /\ upc \in {"ack", "lookup"}
    /\ \E i \in LogIndexes("refresh") :
          /\ ulog[i].exc = "none"
          /\ ulog[i].before \ ulog[i].result # {}
          /\ ulog[i].result # {}
          /\ devices = ulog[i].result

-----------------------------------------------------------------------------
(* Claims about frames of other types *)

\* The step that handles a frame of the uplink socket whose type is not
\* PUSH_DATA.
OtherTypeStep == upc = "refresh" /\ ucur.ptype # PKT_PUSH_DATA

\* C31: a frame received on the uplink socket whose type is not PUSH_DATA
\* gives no PUSH_ACK, no directory miss query and no publish: the thread goes
\* back to receive, and the only state that changes is the device cache (with
\* the time of its last refresh), when more than 60 s have passed since the
\* last refresh.
C31_OtherTypesOnlyRefresh ==
    [][ OtherTypeStep =>
          /\ upc' = "recv"
          /\ UNCHANGED <<ucur, fcnt>>
          /\ IF usince > RefreshSeconds
             THEN /\ Len(ulog') = Len(ulog) + 1
                  /\ ulog'[Len(ulog')].e = "refresh"
                  /\ SubSeq(ulog', 1, Len(ulog)) = ulog
             ELSE UNCHANGED <<devices, usince, ulog>>
          /\ (LogIndexes("ack") = {} /\ NothingDone)' ]_vars

\* A PULL_DATA frame came on the uplink socket more than 60 s after the last
\* refresh: the cache was refreshed and the thread is back at its receive.
C31_Witness ==
    /\ upc = "recv"
    /\ ucur # None
    /\ "ptype" \in DOMAIN ucur
    /\ ucur.ptype = PKT_PULL_DATA
    /\ LogIndexes("refresh") # {}
    /\ Len(ulog) = 1

\* C32: a frame received on the downlink socket whose type is not PULL_DATA
\* (TX_ACK, PUSH_DATA, PUSH_ACK, PULL_RESP, PULL_ACK) leaves the queue as it
\* is and makes the task send nothing: the drain loop is not entered.
C32_OtherTypesNoDrain ==
    [][ /\ (dpc = "recv" /\ dpc' # "crashed" /\ dcur' # dcur) =>
             (UNCHANGED <<dqueue, dsent>> /\
              (dcur'.ptype = PKT_TX_ACK => dpc' = "recv"))
        /\ (dpc = "loop" /\ dcur.ptype # PKT_PULL_DATA /\ dpc' # dpc) =>
             (dpc' = "recv" /\ UNCHANGED <<dqueue, dsent>>)
        /\ (dpc' = "get" => dcur'.ptype = PKT_PULL_DATA) ]_vars

\* A PULL_ACK was received while the queue held an entry, and the task is
\* back at its receive with nothing sent.
C32_Witness ==
    /\ dpc = "recv"
    /\ dcur.ptype = PKT_PULL_ACK
    /\ dqueue # <<>>
    /\ dsent = <<>>

\* C33: on every PULL_DATA received on the downlink socket a PULL_ACK with
\* the received token and gateway identifier is sent back, also when the
\* queue is empty.
C33_PullAckSent ==
    (dpc = "recv" /\ dcur.ptype = PKT_PULL_DATA) =>
        \E i \in 1..Len(dsent) :
            dsent[i].hdr = <<2>> \o dcur.token \o <<PKT_PULL_ACK>> \o FromHex(dcur.gw_id)

\* C34: in every published envelope params.encrypted_payload is the base64 of
\* the FRMPayload bytes (PHY offsets 9..N-4) that were given to decrypt, so
\* that decoding and decrypting it gives the bytes of params.payload.
C34_EncryptedPayloadIsFrmPayload ==
    \A i \in LogIndexes("publish") :
        LET params == ulog[i].msg.params
            enc == b64decode(params.encrypted_payload)
        IN  /\ enc.exc = "none"
            /\ enc.val = ucur.frm_payload_encrypted
            /\ b64encode(LoRaWAN_decrypt(enc.val, AppSKeyOf(ucur.uplink_dev_addr_hex),
                                         ucur.uplink_dev_addr_hex, ucur.uplink_fcnt,
                                         DirectionUP)) = params.payload

-----------------------------------------------------------------------------
(* Claims about the queue of the downlink scheduler *)

\* How many times the entry is in the queue.
QueueCount(id) == Cardinality({k \in 1..Len(dqueue) : dqueue[k].downlink.id = id})

\* C35: at every state each downlink the producer has put is in exactly one
\* of: in the queue once, sent in a PULL_RESP, dropped as expired; no entry is
\* duplicated or lost.
C35_QueueConservation ==
    \A id \in 1..denq :
        QueueCount(id) + SentCount(id) + (IF id \in dhist.dropped THEN 1 ELSE 0) = 1

\* The producer has put its last entry, and every entry in the queue comes
\* into its window before the clock of the model stops.
FinitelyManyEntries ==
    /\ denq = MaxEnq
    /\ \A k \in 1..Len(dqueue) : dqueue[k].tmms - MaxTime <= RipeWindow

\* C36: when time advances and the producer adds finitely many entries, every
\* drain cycle a PULL_DATA started terminates: the loop ends with the queue
\* empty or with one PULL_RESP sent, and the task is back at its receive.
C36_DrainCycleTerminates ==
    (dpc = "get" /\ FinitelyManyEntries)
        ~> (dpc = "recv" /\ (dqueue = <<>> \/ dhist.cyc.cycSent = 1))

\* C39: the downlink task being the only consumer, the get of the drain loop
\* never blocks: whenever the loop has found the queue non-empty, the queue
\* still holds an entry when get is called, whatever the producer has put in
\* between.
C39_GetNeverBlocks ==
    dpc = "get" => (dqueue # <<>> /\ ENABLED DownGet)

\* The queue was empty when the PULL_DATA came; the producer has put two
\* entries since, while the task was between its receive and its get, and
\* the get of the first round of the loop is about to be called.
C39_Witness ==
    /\ dpc = "get"
    /\ Len(dqueue) = 2
    /\ dhist.cyc.cycDeq = 0
    /\ dhist.cyc.head0 = None

-----------------------------------------------------------------------------
(* Claims about the acknowledgement of an uplink *)

\* The datagram in hand is a PUSH_DATA waiting for its PUSH_ACK.
AtAck == upc = "ack"

\* C37: the PUSH_ACK gates the processing of an uplink: when its send fails
\* the datagram is abandoned (the thread goes back to receive with the cache,
\* the refresh time and the counter as they were after the refresh check, no
\* query, decryption or publish made), and the datagram is processed further
\* only after a PUSH_ACK was sent.
C37_AckGatesProcessing ==
    [][ /\ (AtAck /\ ulog' = ulog) =>
             /\ upc' = "recv"
             /\ UNCHANGED <<devices, usince, fcnt, ucur>>
             /\ NothingDone'
        /\ (AtAck /\ upc' = "classify") =>
             /\ Len(ulog') = Len(ulog) + 1
             /\ ulog'[Len(ulog')].e = "ack" ]_vars

\* The send of the PUSH_ACK failed for a PUSH_DATA with a valid uplink of a
\* device the cache holds, and the thread is back at its receive.
C37_Witness ==
    /\ upc = "recv"
    /\ ucur # None
    /\ "payload" \in DOMAIN ucur
    /\ ucur.ptype = PKT_PUSH_DATA
    /\ ucur.payload # None
    /\ LogIndexes("ack") = {}
    /\ InLoRaWANBranch
    /\ devices # {}

\* C38: a PUSH_DATA frame with no JSON body, or whose body fails validation
\* as an uplink batch, is still acknowledged with a PUSH_ACK, gives no
\* publish and no directory query, and the thread goes on to receive.
C38_NoBodyAckedOnly ==
    [][ /\ (upc = "refresh" /\ ucur.ptype = PKT_PUSH_DATA) => upc' = "ack"
        /\ (AtAck /\ ucur.payload = None) =>
             /\ upc' = "recv"
             /\ UNCHANGED <<devices, usince, fcnt, ucur>>
             /\ NothingDone'
             /\ \/ ulog' = ulog
                \/ ulog' = Append(ulog, [e |-> "ack",
                                         data |-> generate_header(ucur.version, ucur.token,
                                                                  PKT_PUSH_ACK, ucur.gw_id)])
             /\ ENABLED (UpAck /\ ulog' # ulog) ]_vars

\* A PUSH_DATA whose body failed validation was acknowledged and the thread
\* is back at its receive.
C38_Witness ==
    /\ upc = "recv"
    /\ ucur # None
    /\ "payload" \in DOMAIN ucur
    /\ ucur.ptype = PKT_PUSH_DATA
    /\ ucur.payload = None
    /\ ucur.data.body # NoBody
    /\ LogIndexes("ack") # {}

=============================================================================
